---- MODULE Spec2Model ----
(***************************************************************************)
(* Model of scripts/gen_visuals.py: the FFT window choice, the waveform    *)
(* renderer's column loop, the spectrogram renderer's set-up and row loop, *)
(* and the command-line driver (single file and directory mode).           *)
(*                                                                         *)
(* Numbers.  Python's "/" is float division; every quotient the model      *)
(* needs is kept exact as a numerator over a named denominator, and        *)
(* int()/floor() of a non-negative quotient is \div.  For the inputs       *)
(* explored here the products stay far below 2^53 and no exact quotient    *)
(* lies within one float ulp of an integer without being that integer, so  *)
(* the float results and the exact ones agree.                             *)
(***************************************************************************)
EXTENDS Integers, Sequences, FiniteSets, TLC

VARIABLES
    \* choose_n_fft called on its own
    fpc, n_samples, n_fft_ret,
    \* render_waveform
    wpc, y, peak, x, start, end, img, seen, overlap,
    \* render_spectrogram
    spc, len_y, padded, n_fft, hop_length, mel_bins, max_bin, y_px, rows,
    \* main, process_directory, process_single_file
    pc, args, HAS_DEPS, PLACEHOLDER_MODE, tree, root_ok, fs, pre,
    files, fidx, audio_path, outputs, exit_code, status,
    attempted, outcomes, writes

fftVars  == <<fpc, n_samples, n_fft_ret>>
waveVars == <<wpc, y, peak, x, start, end, img, seen, overlap>>
specVars == <<spc, len_y, padded, n_fft, hop_length, mel_bins, max_bin, y_px, rows>>
runVars  == <<pc, args, HAS_DEPS, PLACEHOLDER_MODE, tree, root_ok, fs, pre,
              files, fidx, audio_path, outputs, exit_code, status,
              attempted, outcomes, writes>>
vars     == <<fftVars, waveVars, specVars, runVars>>

\* what the steps of one function leave alone: the state of the others
notFft   == <<waveVars, specVars, runVars>>
notWave  == <<fftVars, specVars, runVars>>
notSpec  == <<fftVars, waveVars, runVars>>
notRun   == <<fftVars, waveVars, specVars>>

Min(a, b) == IF a <= b THEN a ELSE b
Max(a, b) == IF a >= b THEN a ELSE b
Abs(a)    == IF a < 0 THEN -a ELSE a
SetMin(S) == CHOOSE m \in S : \A o \in S : m <= o
SetMax(S) == CHOOSE m \in S : \A o \in S : m >= o

(***************************************************************************)
(* choose_n_fft                                                            *)
(***************************************************************************)
Preferred  == 4096
FirstNFft  == 1024

\* bounds of the inputs given to choose_n_fft
MaxNegative == 40
MaxSignal   == 8200

RECURSIVE Doubling(_, _)
Doubling(win, n) ==
    IF win * 2 <= n /\ win < Preferred THEN Doubling(win * 2, n) ELSE win

\* a choose_n_fft that forgets the cap at the sample count
choose_n_fft_uncapped(n) ==
    IF n <= 0 THEN FirstNFft ELSE Doubling(FirstNFft, n)

choose_n_fft(n) ==
    IF n <= 0 THEN FirstNFft ELSE Min(Doubling(FirstNFft, n), n)

FftInputs == ((0 - MaxNegative) .. MaxSignal) \cup {100000}

FftIdle == fpc = "idle" /\ n_samples = 0 /\ n_fft_ret = 0

FftInit ==
    /\ fpc = "call"
    /\ n_samples \in FftInputs
    /\ n_fft_ret = 0

ChooseNFft ==
    /\ fpc = "call"
    /\ n_fft_ret' = choose_n_fft(n_samples)
    /\ fpc' = "done"
    /\ UNCHANGED n_samples
    /\ UNCHANGED notFft

(***************************************************************************)
(* render_waveform                                                         *)
(*                                                                         *)
(* The signal y is described by its length and its sample values: sample   *)
(* y.at has the value y.hi and every other sample the value y.lo.  After   *)
(* peak normalisation a sample s stands for s / Scale, so a vertical       *)
(* coordinate is kept as its numerator over Scale.  img[c] is the line     *)
(* drawn in column c.  seen and overlap record the loop's history: the     *)
(* sample indices the segments so far have held, and whether a segment     *)
(* held an index that an earlier one had held already.                     *)
(***************************************************************************)
Width  == 800
Height == 200

\* bounds of the signals given to render_waveform
MaxSamples == 1702
MaxAmp     == 2

NoLine == [drawn |-> FALSE, y1 |-> 0, y2 |-> 0]

Sample(sig, i) == IF i = sig.at THEN sig.hi ELSE sig.lo

Peak(sig) == SetMax({Abs(Sample(sig, i)) : i \in 0 .. sig.total - 1})

\* the divisor applied to every sample by "if peak > 0: y = y / peak"
Scale(pk) == IF pk > 0 THEN pk ELSE 1

ColStart(col, total) == (col * total) \div Width

RawEnd(col, total) == ((col + 1) * total) \div Width

\* a column end that is not widened when the interval is empty
ColEndNotWidened(col, total) == RawEnd(col, total)

\* a column end that always takes one sample more
ColEndOneMore(col, total) == Min(total, RawEnd(col, total) + 1)

ColEnd(col, total) ==
    IF RawEnd(col, total) <= ColStart(col, total)
    THEN Min(total, ColStart(col, total) + 1)
    ELSE RawEnd(col, total)

Segment(sig, s, e) == {Sample(sig, i) : i \in s .. e - 1}

\* mid = height / 2
Mid == Height \div 2

\* a line end computed from the raw sample, the normalisation left out
LineYRaw(s, pk) == (Mid - s * Mid) * Scale(pk)

\* a line end measured from the top edge instead of the middle
LineYTop(s, pk) == 0 - s * Mid

\* numerator over Scale(pk) of mid - v * mid, v being the sample s / Scale(pk)
LineY(s, pk) == Mid * Scale(pk) - s * Mid

\* the lengths whose column geometry is explored
SampleCounts ==
    {n \in 0 .. MaxSamples :
        \/ n <= 3
        \/ n % 37 = 0
        \/ n \in (Width - 1) .. (Width + 1)
        \/ n = 2 * Width}

Signals ==
    {[total |-> n, at |-> 0, hi |-> 1, lo |-> 0] : n \in SampleCounts}
    \cup
    {s \in [total : {1, 2, Width - 1, Width + 1}, at : {0, 1, Width - 2, Width},
             hi : (0 - MaxAmp) .. MaxAmp, lo : (0 - MaxAmp) .. MaxAmp] :
        s.at \in {0, s.total - 1}}

WaveIdle ==
    /\ wpc = "idle" /\ y = [total |-> 0, at |-> 0, hi |-> 0, lo |-> 0]
    /\ peak = 0 /\ x = 0 /\ start = 0 /\ end = 0
    /\ img = <<>>
    /\ seen = {} /\ overlap = FALSE

WaveInit ==
    /\ wpc = "begin"
    /\ y \in Signals
    /\ peak = 0 /\ x = 0 /\ start = 0 /\ end = 0
    /\ img = [c \in 0 .. Width - 1 |-> NoLine]
    /\ seen = {} /\ overlap = FALSE

\* if y.size == 0: return img
WaveEmpty ==
    /\ wpc = "begin"
    /\ y.total = 0
    /\ wpc' = "done"
    /\ UNCHANGED <<y, peak, x, start, end, img, seen, overlap>>
    /\ UNCHANGED notWave

\* peak = max |y|; if peak > 0: y = y / peak
WaveNormalize ==
    /\ wpc = "begin"
    /\ y.total > 0
    /\ peak' = Peak(y)
    /\ x' = 0
    /\ wpc' = "loop"
    /\ UNCHANGED <<y, start, end, img, seen, overlap>>
    /\ UNCHANGED notWave

\* one iteration of "for x in range(width)"
WaveColumn ==
    /\ wpc = "loop"
    /\ x < Width
    /\ LET s   == ColStart(x, y.total)
           e   == ColEnd(x, y.total)
           seg == Segment(y, s, e)
       IN  /\ start' = s
           /\ end' = e
           /\ img' = IF seg = {}
                     THEN img
                     ELSE [img EXCEPT ![x] =
                              [drawn |-> TRUE,
                               y1 |-> LineY(SetMax(seg), peak),
                               y2 |-> LineY(SetMin(seg), peak)]]
           /\ seen' = seen \cup (s .. e - 1)
           /\ overlap' = (overlap \/ (s .. e - 1) \cap seen # {})
    /\ x' = x + 1
    /\ UNCHANGED <<wpc, y, peak>>
    /\ UNCHANGED notWave

WaveReturn ==
    /\ wpc = "loop"
    /\ x = Width
    /\ wpc' = "done"
    /\ UNCHANGED <<y, peak, x, start, end, img, seen, overlap>>
    /\ UNCHANGED notWave

WaveNext == WaveEmpty \/ WaveNormalize \/ WaveColumn \/ WaveReturn

\* int() of the coordinate num / den, as the line primitive truncates it
Pix(num, den) == IF num >= 0 THEN num \div den ELSE 0 - ((0 - num) \div den)

\* the rows of column col that draw.line turned white: both ends of the line
\* are painted, so a line whose ends coincide is one pixel; rows outside the
\* canvas are clipped
WhiteRows(col) ==
    IF img[col].drawn
    THEN {r \in 0 .. Height - 1 :
            /\ Pix(img[col].y1, Scale(peak)) <= r
            /\ r <= Pix(img[col].y2, Scale(peak))}
    ELSE {}

(***************************************************************************)
(* render_spectrogram                                                      *)
(*                                                                         *)
(* Only the lengths and the bin indices are modelled: the mel energies     *)
(* come from librosa, which returns mel_bins rows, bin 0 being the lowest  *)
(* frequency band.  frac = 1 - y_px / FracDen is kept as the numerator     *)
(* FracNum over FracDen, idx = frac^2 * max_bin as a numerator over        *)
(* FracDen^2.                                                              *)
(***************************************************************************)
SpecWidth  == 800
SpecHeight == 200
MinMelBins == 512

\* the lengths given to render_spectrogram: 0 .. 3 and those next to a
\* multiple of LenStride, up to MaxSignal
LenStride == 128

SpectroLens ==
    {n \in 0 .. MaxSignal : n <= 3 \/ n % LenStride \in {0, 1, LenStride - 1}}
    \cup {44100, 100000}

\* a hop length that is not floored at 1
HopLengthUnfloored(len, win) == (len - win) \div Max(1, SpecWidth - 1)

\* hop_length = max(1, int(floor((len(y) - n_fft) / max(1, width - 1))))
HopLength(len, win) == Max(1, (len - win) \div Max(1, SpecWidth - 1))

FracDen == Max(1, SpecHeight - 1)

\* frac measured from the top row instead of the bottom row
FracNumFromTop(row) == row

\* numerator of frac = 1.0 - y_px / max(1, height - 1)
FracNum(row) == FracDen - row

\* numerator of idx = (frac * frac) * max_bin over FracDen^2
IdxNum(row, top) == FracNum(row) * FracNum(row) * top

\* the bins read for output row `row`
RowBins(row, top) ==
    LET i0 == IdxNum(row, top) \div (FracDen * FracDen)
        i1 == Min(top, i0 + 1)
    IN  [idx |-> IdxNum(row, top),
         i0  |-> i0,
         i1  |-> i1,
         alpha |-> IdxNum(row, top) - i0 * FracDen * FracDen,
         il  |-> Max(0, i0 - 1),
         ir  |-> Min(top, i1 + 1)]

SpectroIdle ==
    /\ spc = "idle" /\ len_y = 0 /\ padded = 0 /\ n_fft = 0 /\ hop_length = 0
    /\ mel_bins = 0 /\ max_bin = 0 /\ y_px = 0 /\ rows = <<>>

SpectroInit ==
    /\ spc = "begin"
    /\ len_y \in SpectroLens
    /\ padded = 0 /\ n_fft = 0 /\ hop_length = 0
    /\ mel_bins = 0 /\ max_bin = 0 /\ y_px = 0 /\ rows = <<>>

\* if y.size < 1: return a black image
SpectroEmpty ==
    /\ spc = "begin"
    /\ len_y < 1
    /\ spc' = "done"
    /\ UNCHANGED <<len_y, padded, n_fft, hop_length, mel_bins, max_bin, y_px, rows>>
    /\ UNCHANGED notSpec

\* window, trailing zero padding, hop length, number of mel bins
SpectroSetup ==
    /\ spc = "begin"
    /\ len_y >= 1
    /\ LET win == choose_n_fft(len_y)
           len == IF len_y < win THEN len_y + (win - len_y) ELSE len_y
       IN  /\ n_fft' = win
           /\ padded' = len
           /\ hop_length' = HopLength(len, win)
    /\ mel_bins' = Max(SpecHeight * 2, MinMelBins)
    /\ max_bin' = Max(SpecHeight * 2, MinMelBins) - 1
    /\ y_px' = 0
    /\ spc' = "rows"
    /\ UNCHANGED <<len_y, rows>>
    /\ UNCHANGED notSpec

\* one iteration of "for y_px in range(height)"; rows[k] is output row k - 1
SpectroRow ==
    /\ spc = "rows"
    /\ y_px < SpecHeight
    /\ rows' = Append(rows, RowBins(y_px, max_bin))
    /\ y_px' = y_px + 1
    /\ UNCHANGED <<spc, len_y, padded, n_fft, hop_length, mel_bins, max_bin>>
    /\ UNCHANGED notSpec

SpectroReturn ==
    /\ spc = "rows"
    /\ y_px = SpecHeight
    /\ spc' = "done"
    /\ UNCHANGED <<len_y, padded, n_fft, hop_length, mel_bins, max_bin, y_px, rows>>
    /\ UNCHANGED notSpec

SpectroNext == SpectroEmpty \/ SpectroSetup \/ SpectroRow \/ SpectroReturn

(***************************************************************************)
(* main, process_directory, process_single_file                            *)
(*                                                                         *)
(* Paths are absolute and canonical, so resolve() finds them as they are.  *)
(* An audio file is [dir, stem, ext]; an output path is <<dir, stem,       *)
(* kind>>, standing for dir/stem.kind.png.  tree maps every entry found    *)
(* under the root to what it is: "ok" decodes, "corrupt" makes             *)
(* librosa.load raise, "dangling" is a symbolic link to nothing, so that   *)
(* exists() is false.  fs maps every output path to its content, "absent"  *)
(* when there is no such file and "old" for a file from before the run.    *)
(* attempted, outcomes and writes record what the run did.                 *)
(***************************************************************************)
NoFile == [dir |-> "", stem |-> "", ext |-> ""]
NoPath == <<"", "", "">>

A1    == [dir |-> "d1", stem |-> "a", ext |-> ".mp3"]
A2    == [dir |-> "d1", stem |-> "a", ext |-> ".wav"]
A3    == [dir |-> "d1", stem |-> "b", ext |-> ".mp3"]
Notes == [dir |-> "d1", stem |-> "notes", ext |-> ".txt"]

\* the entries of the tree in the order sorted() gives their paths
TreeOrder == <<A1, A2, A3, Notes>>

AudioFiles == {A1, A2, A3}

DEFAULT_EXTS == {".mp3", ".wav", ".flac", ".m4a", ".ogg"}

KindOrder == <<"waveform", "spectrogram">>

CustomPath == <<"out", "custom", "png">>

OutputPaths ==
    {<<d, st, k>> : d \in {"d1", "out"}, st \in {"a", "b"},
                    k \in {"waveform", "spectrogram"}}
    \cup {CustomPath}

\* sorted([p for p in root.rglob("*") if p.suffix.lower() in exts])
list_audio_files(entries, exts) ==
    SelectSeq(TreeOrder, LAMBDA f : f \in entries /\ f.ext \in exts)

\* audio_path.exists()
AudioExists(f) == f \in DOMAIN tree /\ tree[f] # "dangling"

Exists(fsx, path) == fsx[path] # "absent"

resolve_output_paths(f, a) ==
    LET base_dir == IF a.output_dir # "" THEN a.output_dir ELSE f.dir
        kinds    == {k \in {"waveform", "spectrogram"} : a.type \in {k, "both"}}
    IN  [k \in kinds |->
            IF k = "waveform"
            THEN (IF a.waveform_output # NoPath
                  THEN a.waveform_output ELSE <<base_dir, f.stem, "waveform">>)
            ELSE (IF a.spectrogram_output # NoPath
                  THEN a.spectrogram_output ELSE <<base_dir, f.stem, "spectrogram">>)]

\* the files and the log after one write of `content` to `path`
Written(st, path, content) ==
    [fs     |-> [st.fs EXCEPT ![path] = content],
     writes |-> Append(st.writes, [path |-> path, existed |-> Exists(st.fs, path)])]

\* for output in outputs.values(): write_placeholder(output)
RECURSIVE PlaceholdersWritten(_, _, _)
PlaceholdersWritten(st, outs, kinds) ==
    IF kinds = <<>> THEN st
    ELSE PlaceholdersWritten(
            IF Head(kinds) \in DOMAIN outs
            THEN Written(st, outs[Head(kinds)], "placeholder") ELSE st,
            outs, Tail(kinds))

\* an exit code that keeps only the last file's result
ExitLast(code, result) == result

\* exit_code = max(exit_code, result)
ExitAfter(code, result) == Max(code, result)

PreexistingSets == {{}, OutputPaths} \cup {{p} : p \in OutputPaths}

ArgSets ==
    [file : {NoFile, A1}, type : {"waveform", "spectrogram", "both"},
     output_dir : {"", "out"},
     waveform_output : {NoPath, CustomPath, <<"d1", "a", "waveform">>},
     spectrogram_output : {NoPath, CustomPath},
     force : BOOLEAN]

TreeSets ==
    {t \in UNION {[S \cup {Notes} -> {"ok", "corrupt", "dangling"}] :
                    S \in SUBSET AudioFiles} : t[Notes] = "ok"}

RunIdle ==
    /\ pc = "idle" /\ args = NoFile /\ HAS_DEPS = FALSE /\ PLACEHOLDER_MODE = FALSE
    /\ tree = <<>> /\ root_ok = FALSE /\ fs = <<>> /\ pre = {}
    /\ files = <<>> /\ fidx = 0 /\ audio_path = NoFile /\ outputs = <<>>
    /\ exit_code = 0 /\ status = 0
    /\ attempted = <<>> /\ outcomes = <<>> /\ writes = <<>>

RunInit ==
    /\ pc = "main"
    /\ args \in ArgSets
    /\ HAS_DEPS \in BOOLEAN
    /\ PLACEHOLDER_MODE \in BOOLEAN
    /\ HAS_DEPS => ~PLACEHOLDER_MODE
    /\ root_ok \in BOOLEAN
    /\ tree \in TreeSets
    \* a run on one file looks at that file only; a missing root holds nothing
    /\ args.file # NoFile => (DOMAIN tree \subseteq {A1, Notes} /\ root_ok)
    /\ ~root_ok => DOMAIN tree = {Notes}
    /\ pre \in PreexistingSets
    \* one rejected combination of options is enough
    /\ args.file = NoFile =>
          (args.spectrogram_output = NoPath
           /\ args.waveform_output \in {NoPath, CustomPath})
    /\ fs = [p \in OutputPaths |-> IF p \in pre THEN "old" ELSE "absent"]
    /\ files = <<>> /\ fidx = 0 /\ audio_path = NoFile /\ outputs = <<>>
    /\ exit_code = 0 /\ status = 0
    /\ attempted = <<>> /\ outcomes = <<>> /\ writes = <<>>

runConfig == <<args, HAS_DEPS, PLACEHOLDER_MODE, tree, root_ok, pre>>

\* if not args.file and (args.waveform_output or args.spectrogram_output)
MainRejectCustom ==
    /\ pc = "main"
    /\ args.file = NoFile
    /\ args.waveform_output # NoPath \/ args.spectrogram_output # NoPath
    /\ status' = 1
    /\ pc' = "done"
    /\ UNCHANGED <<runConfig, fs, files, fidx, audio_path, outputs, exit_code,
                   attempted, outcomes, writes>>
    /\ UNCHANGED notRun

\* return process_single_file(Path(args.file), args)
MainSingle ==
    /\ pc = "main"
    /\ args.file # NoFile
    /\ audio_path' = args.file
    /\ pc' = "psf"
    /\ UNCHANGED <<runConfig, fs, files, fidx, outputs, exit_code, status,
                   attempted, outcomes, writes>>
    /\ UNCHANGED notRun

\* return process_directory(Path(args.root), args)
MainDirectory ==
    /\ pc = "main"
    /\ args.file = NoFile
    /\ args.waveform_output = NoPath /\ args.spectrogram_output = NoPath
    /\ pc' = "dir"
    /\ UNCHANGED <<runConfig, fs, files, fidx, audio_path, outputs, exit_code,
                   status, attempted, outcomes, writes>>
    /\ UNCHANGED notRun

DirRootMissing ==
    /\ pc = "dir"
    /\ ~root_ok
    /\ status' = 1
    /\ pc' = "done"
    /\ UNCHANGED <<runConfig, fs, files, fidx, audio_path, outputs, exit_code,
                   attempted, outcomes, writes>>
    /\ UNCHANGED notRun

DirNoFiles ==
    /\ pc = "dir"
    /\ root_ok
    /\ list_audio_files(DOMAIN tree, DEFAULT_EXTS) = <<>>
    /\ status' = 0
    /\ pc' = "done"
    /\ UNCHANGED <<runConfig, fs, files, fidx, audio_path, outputs, exit_code,
                   attempted, outcomes, writes>>
    /\ UNCHANGED notRun

DirStart ==
    /\ pc = "dir"
    /\ root_ok
    /\ list_audio_files(DOMAIN tree, DEFAULT_EXTS) # <<>>
    /\ files' = list_audio_files(DOMAIN tree, DEFAULT_EXTS)
    /\ exit_code' = 0
    /\ fidx' = 1
    /\ pc' = "dir_loop"
    /\ UNCHANGED <<runConfig, fs, audio_path, outputs, status,
                   attempted, outcomes, writes>>
    /\ UNCHANGED notRun

\* for audio_path in files: result = process_single_file(audio_path, args)
DirCall ==
    /\ pc = "dir_loop"
    /\ fidx <= Len(files)
    /\ audio_path' = files[fidx]
    /\ attempted' = Append(attempted, files[fidx])
    /\ pc' = "psf"
    /\ UNCHANGED <<runConfig, fs, files, fidx, outputs, exit_code, status,
                   outcomes, writes>>
    /\ UNCHANGED notRun

\* return exit_code
DirReturn ==
    /\ pc = "dir_loop"
    /\ fidx > Len(files)
    /\ status' = exit_code
    /\ pc' = "done"
    /\ UNCHANGED <<runConfig, fs, files, fidx, audio_path, outputs, exit_code,
                   attempted, outcomes, writes>>
    /\ UNCHANGED notRun

\* process_single_file ends: it returns `result`, or raises when `raised`.
\* main turns an exception into status 1; process_directory's loop catches
\* it, sets exit_code = 1 and goes on with the next file.
Leave(result, raised) ==
    IF args.file # NoFile
    THEN /\ status' = (IF raised THEN 1 ELSE result)
         /\ pc' = "done"
         /\ UNCHANGED <<exit_code, fidx, outcomes>>
    ELSE /\ exit_code' = (IF raised THEN 1 ELSE ExitAfter(exit_code, result))
         /\ outcomes' = Append(outcomes, [ret |-> result, raised |-> raised])
         /\ fidx' = fidx + 1
         /\ pc' = "dir_loop"
         /\ UNCHANGED status

\* if not audio_path.exists(): return 1
PsfNotFound ==
    /\ pc = "psf"
    /\ ~AudioExists(audio_path)
    /\ Leave(1, FALSE)
    /\ UNCHANGED <<runConfig, fs, files, audio_path, outputs, attempted, writes>>
    /\ UNCHANGED notRun

\* if not args.force and all(p.exists() for p in outputs.values()): return 0
PsfSkip ==
    /\ pc = "psf"
    /\ AudioExists(audio_path)
    /\ LET outs == resolve_output_paths(audio_path, args)
       IN  /\ ~args.force
           /\ \A k \in DOMAIN outs : Exists(fs, outs[k])
           /\ outputs' = outs
    /\ Leave(0, FALSE)
    /\ UNCHANGED <<runConfig, fs, files, audio_path, attempted, writes>>
    /\ UNCHANGED notRun

\* something is to be generated
ToGenerate(outs) ==
    /\ pc = "psf"
    /\ AudioExists(audio_path)
    /\ args.force \/ \E k \in DOMAIN outs : ~Exists(fs, outs[k])

\* if not HAS_DEPS and PLACEHOLDER_MODE: write a placeholder to every output
PsfPlaceholder ==
    LET outs == resolve_output_paths(audio_path, args)
        st   == PlaceholdersWritten([fs |-> fs, writes |-> writes], outs, KindOrder)
    IN  /\ ToGenerate(outs)
        /\ ~HAS_DEPS /\ PLACEHOLDER_MODE
        /\ outputs' = outs
        /\ fs' = st.fs
        /\ writes' = st.writes
        /\ Leave(0, FALSE)
        /\ UNCHANGED <<runConfig, files, audio_path, attempted>>
        /\ UNCHANGED notRun

\* if not HAS_DEPS and not PLACEHOLDER_MODE: return 1
PsfMissingDeps ==
    LET outs == resolve_output_paths(audio_path, args)
    IN  /\ ToGenerate(outs)
        /\ ~HAS_DEPS /\ ~PLACEHOLDER_MODE
        /\ outputs' = outs
        /\ Leave(1, FALSE)
        /\ UNCHANGED <<runConfig, fs, files, audio_path, attempted, writes>>
        /\ UNCHANGED notRun

\* y, sr = librosa.load(audio_path, sr=None, mono=True) raises
PsfLoadFails ==
    LET outs == resolve_output_paths(audio_path, args)
    IN  /\ ToGenerate(outs)
        /\ HAS_DEPS
        /\ tree[audio_path] = "corrupt"
        /\ outputs' = outs
        /\ Leave(0, TRUE)
        /\ UNCHANGED <<runConfig, fs, files, audio_path, attempted, writes>>
        /\ UNCHANGED notRun

PsfLoad ==
    LET outs == resolve_output_paths(audio_path, args)
    IN  /\ ToGenerate(outs)
        /\ HAS_DEPS
        /\ tree[audio_path] = "ok"
        /\ outputs' = outs
        /\ pc' = "psf_wave"
        /\ UNCHANGED <<runConfig, fs, files, fidx, audio_path, exit_code, status,
                       attempted, outcomes, writes>>
        /\ UNCHANGED notRun

\* if "waveform" in outputs: write it if args.force or it does not exist
PsfWaveform ==
    /\ pc = "psf_wave"
    /\ LET st == IF /\ "waveform" \in DOMAIN outputs
                    /\ args.force \/ ~Exists(fs, outputs["waveform"])
                 THEN Written([fs |-> fs, writes |-> writes],
                              outputs["waveform"], "waveform")
                 ELSE [fs |-> fs, writes |-> writes]
       IN  fs' = st.fs /\ writes' = st.writes
    /\ pc' = "psf_spec"
    /\ UNCHANGED <<runConfig, files, fidx, audio_path, outputs, exit_code, status,
                   attempted, outcomes>>
    /\ UNCHANGED notRun

\* if "spectrogram" in outputs: write it if args.force or it does not exist
PsfSpectrogram ==
    /\ pc = "psf_spec"
    /\ LET st == IF /\ "spectrogram" \in DOMAIN outputs
                    /\ args.force \/ ~Exists(fs, outputs["spectrogram"])
                 THEN Written([fs |-> fs, writes |-> writes],
                              outputs["spectrogram"], "spectrogram")
                 ELSE [fs |-> fs, writes |-> writes]
       IN  fs' = st.fs /\ writes' = st.writes
    /\ Leave(0, FALSE)
    /\ UNCHANGED <<runConfig, files, audio_path, outputs, attempted>>
    /\ UNCHANGED notRun

RunNext ==
    \/ MainRejectCustom \/ MainSingle \/ MainDirectory
    \/ DirRootMissing \/ DirNoFiles \/ DirStart \/ DirCall \/ DirReturn
    \/ PsfNotFound \/ PsfSkip \/ PsfPlaceholder \/ PsfMissingDeps
    \/ PsfLoadFails \/ PsfLoad \/ PsfWaveform \/ PsfSpectrogram

(***************************************************************************)
(* Specifications                                                          *)
(***************************************************************************)
InitFft     == FftInit /\ WaveIdle /\ SpectroIdle /\ RunIdle
InitWave    == WaveInit /\ FftIdle /\ SpectroIdle /\ RunIdle
InitSpectro == SpectroInit /\ FftIdle /\ WaveIdle /\ RunIdle
InitRun     == RunInit /\ FftIdle /\ WaveIdle /\ SpectroIdle

SpecFft     == InitFft /\ [][ChooseNFft]_vars
SpecWave    == InitWave /\ [][WaveNext]_vars
SpecSpectro == InitSpectro /\ [][SpectroNext]_vars
SpecRun     == InitRun /\ [][RunNext]_vars

(***************************************************************************)
(* Properties                                                              *)
(***************************************************************************)

\* the window the closed form of C1 gives for n >= 1
ClosedFormWindow(n) ==
    IF n < 2048 THEN 1024 ELSE IF n < 4096 THEN 2048 ELSE 4096

\* C1: choose_n_fft(n) is 1024 for n <= 0 and min(n, w) for n >= 1, w being
\* 1024 below 2048 samples, 2048 below 4096 and 4096 from there on; so 0 gives
\* 1024, 500 gives 500, 100000 gives 4096, and for n >= 1 the result never
\* exceeds n.
C1_ChooseNFft ==
    fpc = "done" =>
        /\ n_samples <= 0 => n_fft_ret = 1024
        /\ n_samples >= 1 =>
              /\ n_fft_ret = Min(n_samples, ClosedFormWindow(n_samples))
              /\ n_fft_ret <= n_samples
        /\ n_samples = 0 => n_fft_ret = 1024
        /\ n_samples = 500 => n_fft_ret = 500
        /\ n_samples = 100000 => n_fft_ret = 4096

C1_Witness == fpc = "done" /\ n_samples = 100000 /\ n_fft_ret = 4096

\* the column just processed is x - 1 and the state holds its start and end
ColumnDone == wpc \in {"loop", "done"} /\ x >= 1

\* C2 as stated: for every N >= 1 and every column but the last, the column's
\* start and end are at most the next column's start, and no sample belongs to
\* the segments of two columns.
C2_Original ==
    (ColumnDone /\ y.total >= 1) =>
        /\ x < Width =>
              /\ start <= ColStart(x, y.total)
              /\ end <= ColStart(x, y.total)
        /\ ~overlap

\* C2 amended: column starts advance monotonically for every N >= 1, and for
\* every N >= 800 a column ends no later than the next one starts and no
\* sample belongs to the segments of two columns.
C2_Amended ==
    (ColumnDone /\ y.total >= 1) =>
        /\ x < Width => start <= ColStart(x, y.total)
        /\ y.total >= Width =>
              /\ x < Width => end <= ColStart(x, y.total)
              /\ ~overlap

C2_Witness ==
    /\ wpc = "done" /\ y.total > Width /\ y.total % Width # 0
    /\ end = y.total /\ ~overlap

\* C7 as stated: a non-empty all-zero signal leaves no white pixel.
C7_Original ==
    (wpc = "done" /\ y.total >= 1 /\ peak = 0) =>
        \A c \in 0 .. Width - 1 : WhiteRows(c) = {}

\* C7 amended: for a non-empty all-zero signal every column is drawn as a
\* line with both ends on the middle row (y = height/2), so the white pixels
\* are exactly the middle row and every other pixel is black.
C7_Amended ==
    /\ (ColumnDone /\ peak = 0 /\ y.total >= 1) =>
          /\ img[x - 1].drawn
          /\ img[x - 1].y1 = Mid /\ img[x - 1].y2 = Mid
    /\ (wpc = "done" /\ y.total >= 1 /\ peak = 0) =>
          \A c \in 0 .. Width - 1 :
              /\ img[c].drawn
              /\ img[c].y1 = Mid /\ img[c].y2 = Mid
              /\ WhiteRows(c) = {Mid}

C7_Witness ==
    /\ wpc = "done" /\ y.total = Width + 1 /\ y.hi = 0 /\ y.lo = 0
    /\ WhiteRows(Width - 1) = {Mid}

\* C8: for a non-silent signal every normalised sample is within [-1, 1],
\* every line end lies in [0, height], and some column's line reaches y = 0
\* or y = height.
C8_PeakNormalization ==
    /\ (ColumnDone /\ peak > 0) =>
          /\ \A i \in {0, y.at, y.total - 1} : Abs(Sample(y, i)) <= Scale(peak)
          /\ img[x - 1].drawn =>
                /\ 0 <= img[x - 1].y1
                /\ img[x - 1].y1 <= img[x - 1].y2
                /\ img[x - 1].y2 <= Height * Scale(peak)
    /\ (wpc = "done" /\ peak > 0) =>
          /\ \A c \in 0 .. Width - 1 :
                img[c].drawn =>
                    /\ 0 <= img[c].y1
                    /\ img[c].y1 <= img[c].y2
                    /\ img[c].y2 <= Height * Scale(peak)
          /\ \E c \in 0 .. Width - 1 :
                /\ img[c].drawn
                /\ img[c].y1 = 0 \/ img[c].y2 = Height * Scale(peak)

C8_Witness ==
    /\ wpc = "done" /\ peak > 1 /\ y.total > Width /\ y.at = y.total - 1
    /\ y.hi = 0 - peak
    /\ img[Width - 1].y2 = Height * peak

\* C10: for every N >= 1 every column gets a non-empty in-range segment and
\* is drawn, never skipped; for every N >= 800 the first column starts at 0,
\* the last ends at N, and every sample is in the segment of exactly one
\* column.
C10_Coverage ==
    (ColumnDone /\ y.total >= 1) =>
        /\ 0 <= start /\ start < end /\ end <= y.total
        /\ img[x - 1].drawn
        /\ (y.total >= Width /\ x = 1) => start = 0
        /\ (y.total >= Width /\ wpc = "done") =>
              /\ end = y.total
              /\ seen = 0 .. y.total - 1
              /\ ~overlap

C10_Witness ==
    /\ wpc = "done" /\ y.total > Width /\ y.total % Width # 0
    /\ seen = 0 .. y.total - 1
    /\ \A c \in 0 .. Width - 1 : img[c].drawn

\* the output row just computed is y_px - 1, kept in rows[y_px]
RowDone == spc \in {"rows", "done"} /\ y_px >= 1

\* C3: low frequencies are at the bottom: the fractional bin index does not
\* increase from one output row to the next one below it, the top row reads
\* bin max_bin and the bottom row bin 0, and every bin index used (i0, i1,
\* il, ir) is within 0 .. max_bin.
C3_LowAtBottom ==
    RowDone =>
        /\ y_px >= 2 => rows[y_px].idx <= rows[y_px - 1].idx
        /\ rows[1].idx = max_bin * FracDen * FracDen /\ rows[1].i0 = max_bin
        /\ y_px = SpecHeight =>
              rows[SpecHeight].idx = 0 /\ rows[SpecHeight].i0 = 0
        /\ \A k \in {rows[y_px].i0, rows[y_px].i1, rows[y_px].il, rows[y_px].ir} :
              0 <= k /\ k <= max_bin

C3_Witness ==
    /\ spc = "done" /\ y_px = SpecHeight /\ max_bin = 511
    /\ rows[SpecHeight].i0 = 0 /\ rows[1].i0 = 511
    /\ rows[2].idx < rows[1].idx

\* C9 as stated: for every n >= 1 the window is never below 1024 and the hop
\* length never below 1.
C9_Original ==
    (spc \in {"rows", "done"} /\ len_y >= 1) =>
        n_fft >= 1024 /\ hop_length >= 1

\* C9 amended: for every n >= 1 the window is never below min(n, 1024): it is
\* n itself for a signal shorter than 1024 samples, which is never padded, and
\* at least 1024 from 1024 samples on; the hop length is never below 1.
C9_Amended ==
    (spc \in {"rows", "done"} /\ len_y >= 1) =>
        /\ n_fft >= Min(len_y, 1024)
        /\ len_y < 1024 => n_fft = len_y /\ padded = len_y
        /\ hop_length >= 1

C9_Witness ==
    /\ spc = "done" /\ len_y = 3 /\ n_fft = 3 /\ padded = 3 /\ hop_length = 1

\* process_directory went through its list and returned
BatchDone == pc = "done" /\ args.file = NoFile /\ files # <<>>

\* C4: process_directory does not stop at a file that fails: every listed
\* file is attempted exactly once, in sorted order, whatever the files before
\* it returned or raised, and the exit status is non-zero exactly when some
\* file returned non-zero or raised.
C4_BatchContinues ==
    /\ (args.file = NoFile /\ pc \in {"dir_loop", "psf", "psf_wave", "psf_spec"}) =>
          /\ files = list_audio_files(DOMAIN tree, DEFAULT_EXTS)
          /\ attempted = SubSeq(files, 1, Len(attempted))
          /\ Len(outcomes) = fidx - 1
    /\ BatchDone =>
          /\ attempted = files
          /\ Len(outcomes) = Len(files)
          /\ \A i, j \in 1 .. Len(attempted) : i # j => attempted[i] # attempted[j]
          /\ (status # 0) <=>
                (\E i \in 1 .. Len(outcomes) :
                    outcomes[i].raised \/ outcomes[i].ret # 0)

C4_Witness ==
    /\ BatchDone /\ Len(files) = 3 /\ attempted = files
    /\ outcomes[1].raised /\ outcomes[2].ret = 1
    /\ ~outcomes[3].raised /\ outcomes[3].ret = 0
    /\ status = 1

WritesTo(path) == {i \in 1 .. Len(writes) : writes[i].path = path}

\* C5: over any run of main no output path is the target of more than one
\* write.
C5_WrittenOnce ==
    \A p \in OutputPaths : Cardinality(WritesTo(p)) <= 1

\* C6: without --force no write goes to a path that exists at the moment of
\* the write, and a file from before the run keeps its content.
C6_NoOverwriteWithoutForce ==
    ~args.force =>
        /\ \A i \in 1 .. Len(writes) : ~writes[i].existed
        /\ \A p \in pre : fs[p] = "old"

====
